---------------------------- MODULE Spec2Model ----------------------------
(***************************************************************************)
(* A model of the folding-wall application: the App state machine, the     *)
(* HandController (asynchronous MediaPipe/webcam setup, the detection      *)
(* loop, the effect cleanup), Scene3D's shared control ref and the         *)
(* per-frame update of ConnectedFoldingWall (smoothing, max-fusion, fold   *)
(* angles, vertex writes, rotation).                                       *)
(*                                                                         *)
(* JavaScript numbers are modelled in fixed point: a number v is the       *)
(* integer round(v * Unit).  The one non-finite value the code can         *)
(* produce on this path, NaN (0/0 in the hand ratio), is the value NaN;    *)
(* every arithmetic helper propagates it as IEEE-754 does.  +Infinity      *)
(* (x/0, x > 0) is the value Inf and only occurs as the hand ratio.        *)
(***************************************************************************)
EXTENDS Integers, Sequences, FiniteSets

\* ------------------------------------------------------------------ bounds
MaxSessions == 2
MaxFrames == 1
WallFrames == 2
MaxStrips == 3
MaxVideoTime == 1
MaxNow == 3
ConvFrames == 68
WarmFrames == 2

\* --------------------------------------------------------- number modelling
Unit == 1000000
NaN == -2000000000
Inf == 2000000000

IsNaN(a) == a = NaN
Finite(a) == a # NaN /\ a # Inf

Abs(a) == IF a < 0 THEN -a ELSE a
Sign(a) == IF a < 0 THEN -1 ELSE 1

\* Rounded quotient of integers (round half away from zero), d > 0.
RoundDiv(a, d) == Sign(a) * ((2 * Abs(a) + d) \div (2 * d))

\* a*b/Unit for non-negative fixed-point numbers, rounded, without leaving
\* 32-bit integers: both factors are split at 1000.
MulNat(a, b) ==
  LET ah == a \div 1000
      al == a % 1000
      bh == b \div 1000
      bl == b % 1000
      q  == ah * bl + al * bh
  IN  ah * bh + (q \div 1000) + (((q % 1000) * 1000 + al * bl + 500000) \div 1000000)

\* The float operations the code uses, NaN-propagating.
FAdd(a, b) == IF IsNaN(a) \/ IsNaN(b) THEN NaN ELSE a + b
FSub(a, b) == IF IsNaN(a) \/ IsNaN(b) THEN NaN ELSE a - b
FMul(a, b) == IF IsNaN(a) \/ IsNaN(b) THEN NaN
              ELSE Sign(a) * Sign(b) * MulNat(Abs(a), Abs(b))
\* a * (n/d) for a literal constant n/d (0.1 = 1/10, 1.3 = 13/10, ...)
FScale(a, n, d) == IF IsNaN(a) THEN NaN ELSE RoundDiv(a * n, d)

\* Math.abs, Math.max, Math.min: NaN if any argument is NaN.
MathAbs(a) == IF IsNaN(a) THEN NaN ELSE Abs(a)
MathMax(a, b) == IF IsNaN(a) \/ IsNaN(b) THEN NaN ELSE IF a >= b THEN a ELSE b
MathMin(a, b) == IF IsNaN(a) \/ IsNaN(b) THEN NaN ELSE IF a <= b THEN a ELSE b

\* THREE.MathUtils.lerp(x, y, t) = (1 - t) * x + t * y, for t = n/d.
Lerp(x, y, n, d) ==
  IF IsNaN(x) \/ IsNaN(y) THEN NaN ELSE RoundDiv((d - n) * x + n * y, d)

\* Math.PI and Math.PI / 2.05 (FoldStrip.tsx line 90)
Pi == 3141593
MaxAngle == 1532484

\* Math.sin / Math.cos on fixed-point radians: range reduction to
\* [-Pi, Pi), reflection into [-Pi/2, Pi/2], then the Taylor polynomial
\* (error below one unit there), kept within [-1, 1].
Clamp1(v) == IF v > Unit THEN Unit ELSE IF v < -Unit THEN -Unit ELSE v
SinPoly(r) ==
  LET r2 == FMul(r, r)
      t3 == RoundDiv(FMul(r, r2), 6)
      t5 == RoundDiv(FMul(t3, r2), 20)
      t7 == RoundDiv(FMul(t5, r2), 42)
      t9 == RoundDiv(FMul(t7, r2), 72)
      t11 == RoundDiv(FMul(t9, r2), 110)
  IN  Clamp1(r - t3 + t5 - t7 + t9 - t11)
CosPoly(r) ==
  LET r2 == FMul(r, r)
      t2 == RoundDiv(r2, 2)
      t4 == RoundDiv(FMul(t2, r2), 12)
      t6 == RoundDiv(FMul(t4, r2), 30)
      t8 == RoundDiv(FMul(t6, r2), 56)
      t10 == RoundDiv(FMul(t8, r2), 90)
      t12 == RoundDiv(FMul(t10, r2), 132)
  IN  Clamp1(Unit - t2 + t4 - t6 + t8 - t10 + t12)
Reduce(x) == ((x + Pi) % (2 * Pi)) - Pi
MathSin(x) ==
  IF IsNaN(x) THEN NaN
  ELSE LET m == Reduce(x)
       IN  IF m > Pi \div 2 THEN SinPoly(Pi - m)
           ELSE IF m < -(Pi \div 2) THEN SinPoly(-Pi - m) ELSE SinPoly(m)
MathCos(x) ==
  IF IsNaN(x) THEN NaN
  ELSE LET m == Abs(Reduce(x))
       IN  IF m > Pi \div 2 THEN -CosPoly(Pi - m) ELSE CosPoly(m)

\* Math.sqrt on non-negative integers, rounded down (bisection on lo..hi).
RECURSIVE SqrtIn(_, _, _)
SqrtIn(n, lo, hi) ==
  IF lo >= hi THEN lo
  ELSE LET mid == (lo + hi + 1) \div 2
       IN  IF mid * mid <= n THEN SqrtIn(n, mid, hi) ELSE SqrtIn(n, lo, mid - 1)
MathSqrt(n) == SqrtIn(n, 0, 2000)


\* ------------------------------------------------------------ program state
VARIABLES
  appState,          \* App: useState<AppState>
  capturedImage,     \* App: capturedImage is non-null
  timeouts,          \* App: setTimeout callbacks of handleCapture still pending
  camera,            \* CameraInterface: "unmounted", "starting", "streaming", "error"
  session,           \* how many Scene3D instances have been mounted; the current one
  hc,                \* HandController effect closures, one per Scene3D instance
  now,               \* performance.now(), in clock ticks
  detector,          \* per instance: the detectForVideo calls seen by the detector
  sample,            \* the data object of the latest onUpdate call, and its handSize
  controlRef,        \* Scene3D: controlRef.current {compression, tiltX, tiltY}
  strips,            \* ConnectedFoldingWall prop (0: no wall mounted)
  noiseOffsets,      \* ConnectedFoldingWall: the Float32Array of per-strip noise
  currentStats,      \* ConnectedFoldingWall: currentStats.current
  positionAttribute, \* geometry.attributes.position: vertex index -> <<x, y, z>>
  rotation,          \* meshRef.current.rotation <<x, y>>
  time,              \* state.clock.getElapsedTime() at the latest frame
  frame,             \* locals of the latest useFrame run (pointer, angles, writes, ...)
  frames,            \* useFrame runs of the current wall
  hold               \* consecutive useFrame runs since controlRef.compression changed

vars == <<appState, capturedImage, timeouts, camera, session, hc, now, detector,
          sample, controlRef, strips, noiseOffsets, currentStats,
          positionAttribute, rotation, time, frame, frames, hold>>

appVars == <<appState, capturedImage, timeouts, camera, session>>
handVars == <<hc, now, detector, sample>>
wallVars == <<strips, noiseOffsets, currentStats, positionAttribute, rotation,
              time, frame, frames, hold>>

\* Scene3D.tsx lines 87-88: the wall's width and height (in whole units).
Width == 16
Height == 10

Instances == 1..MaxSessions

\* -------------------------------------------------- HandController.tsx 15-139
\* One effect closure: the position of setupMediaPipe, the closure's lets
\* (handLandmarker, stream, animationFrameId, lastVideoTime), the component's
\* video element and its loading state.
NoController ==
  [pc |-> "unmounted", handLandmarker |-> "null", stream |-> "null",
   videoRef |-> FALSE, srcObject |-> FALSE, listener |-> FALSE, loaded |-> FALSE,
   loading |-> TRUE, animationFrame |-> FALSE, lastVideoTime |-> -1,
   currentTime |-> 0, cleanedUp |-> FALSE]

\* Lines 16-23, 55, 115: the mounted component, setupMediaPipe() called and
\* suspended at its first await.
NewController ==
  [NoController EXCEPT !.pc = "resolver", !.videoRef = TRUE]

NoDetections == [calls |-> 0, videoTime |-> -1, timestamp |-> -1]

\* Line 108: the no-hand data object.
NoHandData == [compression |-> 0, x |-> 0, y |-> 0, isTracking |-> FALSE]
NoSample == [data |-> NoHandData, handSize |-> -1]

\* Landmarks [0] wrist, [9] middle-finger MCP, [12] middle-finger tip, each
\* <<x, y>> in thousandths of the image size.
Lm(w, m, t) == [wrist |-> w, mcp |-> m, tip |-> t]
Hands ==
  { Lm(<<500, 900>>, <<200, 500>>, <<500, 500>>),   \* fist: ratio 0.8
    Lm(<<500, 900>>, <<200, 500>>, <<250, 300>>),   \* half open: ratio 1.3
    Lm(<<300, 400>>, <<300, 400>>, <<300, 100>>),   \* knuckle on wrist, tip away
    Lm(<<500, 500>>, <<500, 500>>, <<500, 500>>) }  \* all three coincide
\* results.landmarks: empty, or one hand (numHands: 1).
DetectResults == {<<>>} \cup {<<h>> : h \in Hands}

\* Lines 77-83: Math.sqrt(Math.pow(dx, 2) + Math.pow(dy, 2)), in thousandths.
Distance(a, b) ==
  MathSqrt((a[1] - b[1]) * (a[1] - b[1]) + (a[2] - b[2]) * (a[2] - b[2]))

\* Line 86: extension / handSize; x/0 is +Infinity for x > 0 and NaN for 0/0.
Ratio(extension, handSize) ==
  IF handSize = 0 THEN (IF extension = 0 THEN NaN ELSE Inf)
  ELSE RoundDiv(extension * Unit, handSize)

\* Line 91: 1 - Math.max(0, Math.min(1, (ratio - 0.9) / 0.8)).  A quotient
\* of 8 or more is kept as 10: Math.min(1, .) maps all of these to 1.
Compression(ratio) ==
  LET q == IF IsNaN(ratio) THEN NaN
           ELSE IF ratio >= 8 * Unit THEN 10 * Unit
           ELSE RoundDiv((ratio - 900000) * 10, 8)
  IN  FSub(Unit, MathMax(0, MathMin(Unit, q)))

\* Lines 68-109: the data object predictWebcam passes to onUpdate for one
\* detection result, with the handSize it computed (-1: none computed).
HandData(results) ==
  IF Len(results) > 0
  THEN LET landmarks == results[1]
           handSize == Distance(landmarks.mcp, landmarks.wrist)
           extension == Distance(landmarks.tip, landmarks.wrist)
           ratio == Ratio(extension, handSize)
       IN  [data |-> [compression |-> Compression(ratio),
                      x |-> (Unit - landmarks.mcp[1] * 1000) * 2 - Unit,
                      y |-> -(landmarks.mcp[2] * 1000 * 2 - Unit),
                      isTracking |-> TRUE],
            handSize |-> handSize]
  ELSE [data |-> NoHandData, handSize |-> -1]

\* -------------------------------------------------------- Scene3D.tsx 39-55
ZeroControl == [compression |-> 0, tiltX |-> 0, tiltY |-> 0]

\* handleHandUpdate: the control ref after one onUpdate(data).
HandleHandUpdate(data) ==
  IF data.isTracking
  THEN [compression |-> data.compression, tiltX |-> data.x, tiltY |-> data.y]
  ELSE ZeroControl

\* ------------------------------------------------------ FoldStrip.tsx 19-126
\* Lengths of the vertex buffer are kept in half units (1 / (2 * Unit)), so
\* that the halving of line 101 is exact, as it is in binary floating point.
Twice(a) == FScale(a, 2, 1)

\* Line 37: Math.random() values in [0, 1), one table per strip count.
NoiseTables(n) ==
  { [i \in 1..n |-> 0],
    [i \in 1..n |-> IF i % 2 = 1 THEN 999999 ELSE 500000] }

\* Line 31: new THREE.PlaneGeometry(width, height, strips, 1): two rows of
\* strips + 1 vertices, the top row first, flat in z.
SegWidth(n) == RoundDiv(Width * Unit, n)
PlaneGeometry(n) ==
  [v \in 0..(2 * n + 1) |->
     LET ix == v % (n + 1)
         iy == v \div (n + 1)
     IN  <<Twice(ix * SegWidth(n)) - Width * Unit,
           IF iy = 0 THEN Height * Unit ELSE -(Height * Unit),
           0>>]

\* Lines 56-58: the smoothing of the three hand inputs.
SmoothMutant(stats, control) ==
  [compression |-> Lerp(stats.compression, control.compression, 1, 20),
   tiltX |-> Lerp(stats.tiltX, control.tiltX, 1, 10),
   tiltY |-> Lerp(stats.tiltY, control.tiltY, 1, 10)]
Smooth(stats, control) ==
  [compression |-> Lerp(stats.compression, control.compression, 1, 10),
   tiltX |-> Lerp(stats.tiltX, control.tiltX, 1, 20),
   tiltY |-> Lerp(stats.tiltY, control.tiltY, 1, 20)]

\* Lines 67-70: Math.max(currentStats.current.compression, Math.abs(pointer.x))
EffectiveCompressionMutant(smoothed, pointerX) == MathMin(smoothed, MathAbs(pointerX))
EffectiveCompression(smoothed, pointerX) == MathMax(smoothed, MathAbs(pointerX))

\* Lines 80-90: the fold angle of strip i (0-based) at elapsed time t.
WaveMutant(t, i) == FScale(MathSin(FAdd(FScale(t, 3, 2), i * 300000)), 15, 10)
Wave(t, i) == FScale(MathSin(FAdd(FScale(t, 3, 2), i * 300000)), 15, 100)
BaseAngle(eff, t, i) == FAdd(FScale(eff, 13, 10), FScale(Wave(t, i), 1, 10))
AngleMutant(eff, noise, t, i) ==
  LET dir == IF i % 2 = 0 THEN 1 ELSE -1
  IN  FScale(FAdd(MathMin(MaxAngle, BaseAngle(eff, t, i)), FMul(noise, eff)), dir, 1)
Angle(eff, noise, t, i) ==
  LET dir == IF i % 2 = 0 THEN 1 ELSE -1
  IN  FScale(MathMin(MaxAngle,
                     FAdd(BaseAngle(eff, t, i), FMul(FScale(noise, 1, 10), eff))),
             dir, 1)

\* Lines 75-98: the loop over the strips; angles, then the running x and z.
Angles(eff, noise, t, n) == [i \in 1..n |-> Angle(eff, noise[i], t, i - 1)]
RECURSIVE Walk(_, _, _)
\* Walk(steps, k, start): the positions <<p_0, ..., p_k>> with p_0 = start.
Walk(steps, k, start) ==
  IF k = 0 THEN <<start>>
  ELSE LET before == Walk(steps, k - 1, start)
       IN  Append(before, FAdd(before[k], steps[k]))
XPositions(angles, n) ==
  Walk([i \in 1..n |-> FMul(SegWidth(n), MathCos(angles[i]))], n, 0)
ZPositions(angles, n) ==
  Walk([i \in 1..n |-> FMul(SegWidth(n), MathSin(angles[i]))], n, 0)

\* Lines 100-109: the setXYZ calls in program order, <<index, <<x, y, z>>>>;
\* x is xPositions[i] + offsetX with offsetX = -totalCurrentWidth / 2.
RECURSIVE Writes(_, _, _, _)
WritesMutant(xs, zs, n, last) ==
  IF last < 0 THEN <<>>
  ELSE LET xv == Twice(xs[last + 1])
           zv == Twice(zs[last + 1])
       IN  Writes(xs, zs, n, last - 1)
             \o << <<last, <<xv, Height * Unit, zv>> >>,
                   <<last + n + 1, <<xv, -(Height * Unit), zv>> >> >>
Writes(xs, zs, n, last) ==
  IF last < 0 THEN <<>>
  ELSE LET xv == FSub(Twice(xs[last + 1]), xs[n + 1])
           zv == Twice(zs[last + 1])
       IN  Writes(xs, zs, n, last - 1)
             \o << <<last, <<xv, Height * Unit, zv>> >>,
                   <<last + n + 1, <<xv, -(Height * Unit), zv>> >> >>
WriteLoopMutant(xs, zs, n) == Writes(xs, zs, n, n - 1)
WriteLoop(xs, zs, n) == Writes(xs, zs, n, n)

\* positionAttribute.setXYZ applied call by call; an index beyond the
\* buffer is not stored (a typed array ignores it).
RECURSIVE Stored(_, _, _)
Stored(buffer, writes, k) ==
  IF k = 0 THEN buffer
  ELSE LET b == Stored(buffer, writes, k - 1)
           w == writes[k]
       IN  IF w[1] \in DOMAIN b THEN [b EXCEPT ![w[1]] = w[2]] ELSE b

\* Lines 119-125: the rotation after the frame.
Rotate(rot, stats, pointer) ==
  LET combinedTiltX == FAdd(stats.tiltY, FScale(pointer[2], 3, 10))
      combinedTiltY == FAdd(stats.tiltX, FScale(pointer[1], 2, 10))
  IN  <<Lerp(rot[1], FScale(combinedTiltX, 1, 2), 1, 10),
        Lerp(rot[2], FScale(combinedTiltY, 1, 2), 1, 10)>>

NoFrame ==
  [ran |-> FALSE, pointer |-> <<0, 0>>, effectiveCompression |-> 0,
   angles |-> <<>>, xPositions |-> <<>>, zPositions |-> <<>>, writes |-> <<>>]

\* Lines 43-126: one run of the useFrame callback, with the pointer and the
\* elapsed time it reads.
UseFrame(pointer, t) ==
  LET stats == Smooth(currentStats, controlRef)
      eff == EffectiveCompression(stats.compression, pointer[1])
      angles == Angles(eff, noiseOffsets, t, strips)
      xs == XPositions(angles, strips)
      zs == ZPositions(angles, strips)
      writes == WriteLoop(xs, zs, strips)
  IN  /\ currentStats' = stats
      /\ positionAttribute' = Stored(positionAttribute, writes, Len(writes))
      /\ rotation' = Rotate(rotation, stats, pointer)
      /\ time' = t
      /\ frame' = [ran |-> TRUE, pointer |-> pointer, effectiveCompression |-> eff,
                   angles |-> angles, xPositions |-> xs, zPositions |-> zs,
                   writes |-> writes]

\* ---------------------------------------------------------------- inputs
\* pointer <<x, y>> in [-1, 1]^2, and the time between two frames.
Pointers == {<<0, 0>>, <<-500000, 1000000>>, <<1000000, 0>>}
ElapsedSteps == {0, 2200000}
\* Clock ticks that pass before a scheduled callback of the detection loop runs.
ClockSteps == {1, 2}

NoBuffer == [v \in {} |-> <<0, 0, 0>>]

Init ==
  /\ appState = "IDLE"
  /\ capturedImage = FALSE
  /\ timeouts = 0
  /\ camera = "starting"
  /\ session = 0
  /\ hc = [i \in Instances |-> NoController]
  /\ now = 0
  /\ detector = [i \in Instances |-> NoDetections]
  /\ sample = NoSample
  /\ controlRef = ZeroControl
  /\ strips = 0
  /\ noiseOffsets = <<>>
  /\ currentStats = ZeroControl
  /\ positionAttribute = NoBuffer
  /\ rotation = <<0, 0>>
  /\ time = 0
  /\ frame = NoFrame
  /\ frames = 0
  /\ hold = 0

\* ------------------------------------------- CameraInterface (lines 146-262)
\* startCamera: getUserMedia resolves and the video plays, or it rejects.
CameraReady ==
  /\ camera = "starting"
  /\ camera' = "streaming"
  /\ UNCHANGED <<appState, capturedImage, timeouts, session, handVars,
                 controlRef, wallVars>>

CameraError ==
  /\ camera = "starting"
  /\ camera' = "error"
  /\ UNCHANGED <<appState, capturedImage, timeouts, session, handVars,
                 controlRef, wallVars>>

\* ------------------------------------------------------- App (lines 269-315)
\* The states handleCapture, its timeout and handleReset set.
CaptureState == "PROCESSING"
TimeoutState == "INTERACTIVE"
ResetStateMutant == "CAPTURING"
ResetState == "IDLE"

\* handleCapture, called by the capture button of CameraInterface (shown
\* while IDLE, enabled once streaming); CameraInterface unmounts.
HandleCapture ==
  /\ appState = "IDLE"
  /\ camera = "streaming"
  /\ session < MaxSessions
  /\ capturedImage' = TRUE
  /\ appState' = CaptureState
  /\ timeouts' = timeouts + 1
  /\ camera' = "unmounted"
  /\ UNCHANGED <<session, handVars, controlRef, wallVars>>

\* Scene3D mounts (line 310: INTERACTIVE and an image): a new control ref,
\* a HandController with setupMediaPipe started, a wall with new noise.
MountSceneMutant(n, noise) ==
  /\ session' = session + 1
  /\ hc' = [hc EXCEPT ![session + 1] = NewController]
  /\ controlRef' = HandleHandUpdate(sample.data)
  /\ strips' = n
  /\ noiseOffsets' = noise
  /\ currentStats' = ZeroControl
  /\ positionAttribute' = PlaneGeometry(n)
  /\ rotation' = <<0, 0>>
  /\ time' = 0
  /\ frame' = NoFrame
  /\ frames' = 0
  /\ hold' = 0
MountScene(n, noise) ==
  /\ session' = session + 1
  /\ hc' = [hc EXCEPT ![session + 1] = NewController]
  /\ controlRef' = ZeroControl
  /\ strips' = n
  /\ noiseOffsets' = noise
  /\ currentStats' = ZeroControl
  /\ positionAttribute' = PlaneGeometry(n)
  /\ rotation' = <<0, 0>>
  /\ time' = 0
  /\ frame' = NoFrame
  /\ frames' = 0
  /\ hold' = 0

\* Lines 117-122: the effect cleanup.  On unmount React has detached
\* videoRef before the cleanup runs, so line 119 finds it null.
Cleanup(c) ==
  [c EXCEPT !.videoRef = FALSE,
            !.stream = IF c.stream = "live" THEN "stopped" ELSE c.stream,
            !.handLandmarker = IF c.handLandmarker = "open" THEN "closed"
                               ELSE c.handLandmarker,
            !.animationFrame = FALSE,
            !.cleanedUp = TRUE]

\* Scene3D unmounts: the HandController's cleanup runs, the wall, its refs
\* and the control ref are dropped.
UnmountScene ==
  /\ hc' = [hc EXCEPT ![session] = Cleanup(hc[session])]
  /\ controlRef' = ZeroControl
  /\ strips' = 0
  /\ noiseOffsets' = <<>>
  /\ currentStats' = ZeroControl
  /\ positionAttribute' = NoBuffer
  /\ rotation' = <<0, 0>>
  /\ time' = 0
  /\ frame' = NoFrame
  /\ frames' = 0
  /\ hold' = 0
  /\ UNCHANGED session

\* The setTimeout callback of handleCapture (line 279).
Timeout(counts) ==
  /\ timeouts > 0
  /\ timeouts' = timeouts - 1
  /\ appState' = TimeoutState
  /\ IF appState' = "INTERACTIVE" /\ capturedImage /\ appState # "INTERACTIVE"
     THEN \E n \in counts : \E noise \in NoiseTables(n) : MountScene(n, noise)
     ELSE UNCHANGED <<session, hc, controlRef, wallVars>>
  /\ UNCHANGED <<capturedImage, camera, now, detector, sample>>

\* handleReset, called by the "New Capture" button of Scene3D.
HandleReset ==
  /\ appState = "INTERACTIVE" /\ capturedImage
  /\ capturedImage' = FALSE
  /\ appState' = ResetState
  /\ camera' = IF appState' = "IDLE" THEN "starting" ELSE camera
  /\ UnmountScene
  /\ UNCHANGED <<timeouts, now, detector, sample>>

\* ------------------------------------- HandController: setupMediaPipe 24-53
\* Each await of setupMediaPipe resolves or rejects on its own; the closure
\* is not told about a cleanup that ran in between.
SetTo(i, c) == hc' = [hc EXCEPT ![i] = c]
SetupUnchanged == UNCHANGED <<appVars, now, detector, sample, controlRef, wallVars>>

\* Lines 49-52: the catch block.
SetupFailed(i) ==
  SetTo(i, [hc[i] EXCEPT !.pc = "failed", !.loading = FALSE])

ResolverDone(i) ==
  /\ hc[i].pc = "resolver"
  /\ SetTo(i, [hc[i] EXCEPT !.pc = "create"])
  /\ SetupUnchanged

\* Line 30: handLandmarker = await HandLandmarker.createFromOptions(...);
\* getUserMedia is called next.
CreateDone(i) ==
  /\ hc[i].pc = "create"
  /\ SetTo(i, [hc[i] EXCEPT !.pc = "media", !.handLandmarker = "open"])
  /\ SetupUnchanged

\* Lines 40-48: stream = await getUserMedia(...); the video gets the stream
\* and the loadeddata listener if the ref is still set.
MediaDone(i) ==
  /\ hc[i].pc = "media"
  /\ SetTo(i, [hc[i] EXCEPT !.pc = "done", !.stream = "live",
                            !.srcObject = hc[i].videoRef,
                            !.listener = hc[i].videoRef,
                            !.loading = FALSE])
  /\ SetupUnchanged

SetupRejects(i) ==
  /\ hc[i].pc \in {"resolver", "create", "media"}
  /\ SetupFailed(i)
  /\ SetupUnchanged

\* ------------------------------------ HandController: predictWebcam 55-113
\* The video element shows the next frame of its stream.
VideoFrame(i) ==
  /\ hc[i].srcObject /\ hc[i].stream = "live"
  /\ hc[i].currentTime < MaxVideoTime
  /\ SetTo(i, [hc[i] EXCEPT !.currentTime = hc[i].currentTime + 1])
  /\ SetupUnchanged

\* Line 62: video.currentTime !== lastVideoTime.
VideoTimeChangedMutant(c) == TRUE
VideoTimeChanged(c) == c.currentTime # c.lastVideoTime

\* One call of predictWebcam in closure state c, the detector answering
\* results, d clock ticks after the previous callback.
PredictWebcamMutant(i, c, results, d) ==
  /\ now' = now + d
  /\ IF c.handLandmarker = "null" \/ ~c.videoRef
     THEN /\ SetTo(i, c)
          /\ UNCHANGED <<detector, sample, controlRef, hold, currentStats>>
     ELSE IF VideoTimeChanged(c)
     THEN LET got == HandData(results)
              next == IF i = session THEN HandleHandUpdate(got.data) ELSE controlRef
          IN  /\ SetTo(i, [c EXCEPT !.lastVideoTime = c.currentTime,
                                    !.animationFrame = TRUE])
              /\ detector' = [detector EXCEPT ![i] =
                                [calls |-> detector[i].calls + 1,
                                 videoTime |-> c.currentTime,
                                 timestamp |-> now']]
              /\ sample' = got
              /\ controlRef' = next
              /\ currentStats' = next
              /\ hold' = IF next.compression = controlRef.compression THEN hold ELSE 0
     ELSE /\ SetTo(i, [c EXCEPT !.animationFrame = TRUE])
          /\ UNCHANGED <<detector, sample, controlRef, hold, currentStats>>
  /\ UNCHANGED <<appVars, strips, noiseOffsets, positionAttribute,
                 rotation, time, frame, frames>>
PredictWebcam(i, c, results, d) ==
  /\ now' = now + d
  /\ IF c.handLandmarker = "null" \/ ~c.videoRef
     THEN /\ SetTo(i, c)
          /\ UNCHANGED <<detector, sample, controlRef, hold>>
     ELSE IF VideoTimeChanged(c)
     THEN LET got == HandData(results)
              next == IF i = session THEN HandleHandUpdate(got.data) ELSE controlRef
          IN  /\ SetTo(i, [c EXCEPT !.lastVideoTime = c.currentTime,
                                    !.animationFrame = TRUE])
              /\ detector' = [detector EXCEPT ![i] =
                                [calls |-> detector[i].calls + 1,
                                 videoTime |-> c.currentTime,
                                 timestamp |-> now']]
              /\ sample' = got
              /\ controlRef' = next
              /\ hold' = IF next.compression = controlRef.compression THEN hold ELSE 0
     ELSE /\ SetTo(i, [c EXCEPT !.animationFrame = TRUE])
          /\ UNCHANGED <<detector, sample, controlRef, hold>>
  /\ UNCHANGED <<appVars, strips, noiseOffsets, currentStats, positionAttribute,
                 rotation, time, frame, frames>>

\* Line 46: the video's loadeddata event calls predictWebcam.
LoadedData(i, steps) ==
  /\ hc[i].listener /\ hc[i].srcObject /\ hc[i].stream = "live" /\ ~hc[i].loaded
  /\ now < MaxNow
  /\ \E results \in DetectResults : \E d \in steps :
       PredictWebcam(i, [hc[i] EXCEPT !.loaded = TRUE], results, d)

\* Line 112: the requested animation frame calls predictWebcam.
AnimationFrame(i, steps) ==
  /\ hc[i].animationFrame
  /\ now < MaxNow
  /\ \E results \in DetectResults : \E d \in steps :
       PredictWebcam(i, [hc[i] EXCEPT !.animationFrame = FALSE], results, d)

\* ---------------------------------------------- ConnectedFoldingWall frame
\* useFrame runs while the mesh is mounted (line 44).
Frame(pointers, steps, max) ==
  /\ appState = "INTERACTIVE" /\ strips > 0
  /\ frames < max
  /\ \E pointer \in pointers : \E dt \in steps : UseFrame(pointer, time + dt)
  /\ frames' = frames + 1
  /\ hold' = hold + 1
  /\ UNCHANGED <<appVars, handVars, controlRef, strips, noiseOffsets>>

\* The application: every component's life cycle, the detection loop with
\* every detection result and clock step, and the frames of the wall with
\* one pointer position and one frame time.
Next ==
  \/ CameraReady
  \/ CameraError
  \/ HandleCapture
  \/ Timeout({MaxStrips})
  \/ HandleReset
  \/ \E i \in Instances : ResolverDone(i)
  \/ \E i \in Instances : CreateDone(i)
  \/ \E i \in Instances : MediaDone(i)
  \/ \E i \in Instances : SetupRejects(i)
  \/ \E i \in Instances : VideoFrame(i)
  \/ \E i \in Instances : LoadedData(i, ClockSteps)
  \/ \E i \in Instances : AnimationFrame(i, ClockSteps)
  \/ Frame({<<-500000, 1000000>>}, {2200000}, MaxFrames)

Spec == Init /\ [][Next]_vars

\* One mounted wall (the state the application is in once Scene3D is mounted
\* and the detection loop runs): every strip count and noise table, every
\* pointer position and frame time, every detection result.
RunningController ==
  [NewController EXCEPT !.pc = "done", !.handLandmarker = "open", !.stream = "live",
                        !.srcObject = TRUE, !.listener = TRUE, !.loaded = TRUE,
                        !.loading = FALSE, !.animationFrame = TRUE]

InitWall ==
  /\ appState = "INTERACTIVE"
  /\ capturedImage = TRUE
  /\ timeouts = 0
  /\ camera = "unmounted"
  /\ session = 1
  /\ hc = [i \in Instances |-> IF i = 1 THEN RunningController ELSE NoController]
  /\ now = 0
  /\ detector = [i \in Instances |-> NoDetections]
  /\ sample = NoSample
  /\ controlRef = ZeroControl
  /\ \E n \in 1..MaxStrips : \E noise \in NoiseTables(n) :
       /\ strips = n
       /\ noiseOffsets = noise
       /\ positionAttribute = PlaneGeometry(n)
  /\ currentStats = ZeroControl
  /\ rotation = <<0, 0>>
  /\ time = 0
  /\ frame = NoFrame
  /\ frames = 0
  /\ hold = 0

NextWall ==
  \/ VideoFrame(1)
  \/ AnimationFrame(1, {1})
  \/ Frame(Pointers, ElapsedSteps, WallFrames)

SpecWall == InitWall /\ [][NextWall]_vars

\* One mounted wall of one strip whose hand holds still: detections only
\* during the first WarmFrames frames, then frames at a fixed pointer and
\* frame time, so that the smoothing runs on a constant target.
InitConv ==
  /\ InitWall
  /\ strips = 1
  /\ noiseOffsets = [i \in 1..1 |-> 0]

NextConv ==
  \/ VideoFrame(1)
  \/ (frames <= WarmFrames /\ AnimationFrame(1, {1}))
  \/ Frame({<<0, 0>>}, {16667}, WarmFrames + ConvFrames)

SpecConverge == InitConv /\ [][NextConv]_vars

\* ================================================================== claims
InUnit(a) == Finite(a) /\ 0 <= a /\ a <= Unit
MaxOf(a, b) == IF a >= b THEN a ELSE b
Increments == {1, 250000, Unit}

\* C1: in every frame whose smoothed compression and |pointer.x| lie in
\* [0, 1], effectiveCompression is the larger of the two; raising either
\* input alone never lowers it; and with |pointer.x| = 1 it is 1.
C1_MaxPrecedence ==
  (frame.ran /\ InUnit(currentStats.compression)) =>
    LET s == currentStats.compression
        px == frame.pointer[1]
        m == Abs(px)
        eff == frame.effectiveCompression
    IN  /\ eff = MaxOf(s, m)
        /\ \A d \in Increments :
             /\ s + d <= Unit => EffectiveCompression(s + d, px) >= eff
             /\ m + d <= Unit => /\ EffectiveCompression(s, m + d) >= eff
                                 /\ EffectiveCompression(s, -(m + d)) >= eff
        /\ m = Unit => eff = Unit

\* A frame at pointer.x = 1 after the hand had raised the smoothed compression.
C1_Witness ==
  /\ frame.ran
  /\ frame.pointer[1] = Unit
  /\ InUnit(currentStats.compression) /\ currentStats.compression > 0
  /\ frame.effectiveCompression = Unit

\* C2: in every frame whose effective compression lies in [0, 1], every
\* strip's fold angle is at most pi/2.05 in magnitude, for every noise table
\* and elapsed time.
C2_AngleBound ==
  (frame.ran /\ InUnit(frame.effectiveCompression)) =>
    \A i \in 1..strips : Abs(frame.angles[i]) <= MaxAngle

\* A fully compressed frame with a noisy strip folded beyond 1.4 rad.
C2_Witness ==
  /\ frame.ran
  /\ frame.effectiveCompression = Unit
  /\ \E i \in 1..strips : noiseOffsets[i] > 0 /\ Abs(frame.angles[i]) > 1400000

\* The case of C3: a frame at effective compression 0 on an all-zero noise table.
Flat ==
  /\ frame.ran
  /\ frame.effectiveCompression = 0
  /\ \A i \in 1..strips : noiseOffsets[i] = 0

\* The straight wall: every angle 0, every z 0, x evenly spaced from
\* -width/2 to width/2 (up to the rounding of width / strips).
Straight ==
  /\ \A i \in 1..strips : frame.angles[i] = 0
  /\ \A v \in 0..strips :
       /\ positionAttribute[v][3] = 0
       /\ Abs(strips * positionAttribute[v][1] - (2 * v - strips) * Width * Unit)
            <= 4 * strips

\* C3 as claimed: at effective compression 0 with an all-zero noise table the
\* wall is the straight line of length width, whatever the time.
C3_Original == Flat => Straight

\* C3 as amended: there every angle is the wave term alone, at most 0.015 in
\* magnitude; the ends are symmetric about X = 0, the span lies between
\* width * cos(0.015) and width, |z| stays below 0.015 * width; and the wall
\* is the straight line when the wave is 0 at every strip.
C3_FlatWall ==
  Flat =>
    LET x0 == positionAttribute[0][1]
        xn == positionAttribute[strips][1]
    IN  /\ \A i \in 1..strips : Abs(frame.angles[i]) <= 15000
        /\ x0 + xn = 0
        /\ xn - x0 <= 2 * Width * Unit
        /\ xn - x0 >= 2 * Width * (Unit - 113) - 4 * strips
        /\ \A v \in 0..strips : Abs(positionAttribute[v][3]) <= 2 * Width * 15000
        /\ (\A i \in 1..strips : Wave(time, i - 1) = 0) => Straight

\* A flat-case frame in which a strip is folded by the wave.
C3_Witness == Flat /\ \E i \in 1..strips : frame.angles[i] # 0

\* C4: a frame makes exactly 2 * (strips + 1) vertex writes, one to each
\* index 0 .. 2 * strips + 1: index i gets (x_i, +height/2, z_i), index
\* i + strips + 1 the same x_i and z_i with -height/2; the buffer holds them.
VertexX(i) == FSub(Twice(frame.xPositions[i + 1]), frame.xPositions[strips + 1])
VertexZ(i) == Twice(frame.zPositions[i + 1])
C4_VertexWrites ==
  frame.ran =>
    LET w == frame.writes
    IN  /\ Len(w) = 2 * (strips + 1)
        /\ \A v \in 0..(2 * strips + 1) :
             Cardinality({k \in 1..Len(w) : w[k][1] = v}) = 1
        /\ \A i \in 0..strips :
             /\ \E k \in 1..Len(w) :
                  w[k] = <<i, <<VertexX(i), Height * Unit, VertexZ(i)>> >>
             /\ \E k \in 1..Len(w) :
                  w[k] = <<i + strips + 1, <<VertexX(i), -(Height * Unit), VertexZ(i)>> >>
             /\ positionAttribute[i] = <<VertexX(i), Height * Unit, VertexZ(i)>>
             /\ positionAttribute[i + strips + 1]
                  = <<VertexX(i), -(Height * Unit), VertexZ(i)>>

\* A frame of a wall of several strips, folded (some z is not 0).
C4_Witness ==
  /\ frame.ran
  /\ strips >= 2
  /\ Len(frame.writes) = 2 * (strips + 1)
  /\ \E v \in 0..strips : positionAttribute[v][3] # 0

\* C5: once a controller's cleanup has run, no camera stream it obtained is
\* live and no detector it created is open.
C5_Released ==
  \A i \in Instances :
    hc[i].cleanedUp => hc[i].stream # "live" /\ hc[i].handLandmarker # "open"

\* One smoothed value a becoming b in a frame towards target 0 at rate 1/m:
\* both are numbers, b is a * (m - 1) / m (rounded), and b is 0 only if a is.
Decays(a, b, m) ==
  /\ Finite(a) /\ Finite(b)
  /\ a # 0 => b # 0
  /\ Abs(m * b - (m - 1) * a) <= m \div 2

\* C6: in every frame that runs while the latest hand sample is the untracked
\* one, the smoothed compression is multiplied by 0.9 and the smoothed tilts
\* by 0.95, and none becomes 0 in that frame unless it was 0.
C6_Decay ==
  [][(frames' = frames + 1 /\ detector[session].calls > 0
        /\ ~sample.data.isTracking)
       => /\ Decays(currentStats.compression, currentStats'.compression, 10)
          /\ Decays(currentStats.tiltX, currentStats'.tiltX, 20)
          /\ Decays(currentStats.tiltY, currentStats'.tiltY, 20)]_vars

\* The same for the frames that start from numbers (no NaN in the smoothed
\* compression).
C6_DecayOfNumbers ==
  [][(frames' = frames + 1 /\ detector[session].calls > 0
        /\ ~sample.data.isTracking /\ Finite(currentStats.compression))
       => /\ Decays(currentStats.compression, currentStats'.compression, 10)
          /\ Decays(currentStats.tiltX, currentStats'.tiltX, 20)
          /\ Decays(currentStats.tiltY, currentStats'.tiltY, 20)]_vars

\* The case of C7: the smoothed compression and a target in [0, 1].
Converging == InUnit(controlRef.compression) /\ InUnit(currentStats.compression)
SmoothingError == currentStats.compression - controlRef.compression

\* C7 as claimed: after 60 frames on a constant target the smoothed
\* compression is within 1e-3 of it.
C7_Original == (Converging /\ hold >= 60) => Abs(SmoothingError) <= 1000

\* C7 as amended: after 66 frames on a constant target the smoothed
\* compression is within 1e-3 of it, and every frame multiplies the error by
\* 0.9 (up to the rounding of the last digit).
C7_Converges ==
  /\ []((Converging /\ hold >= 66) => Abs(SmoothingError) <= 1000)
  /\ [][(frames' = frames + 1 /\ Converging)
          => Abs(10 * SmoothingError' - 9 * SmoothingError) <= 5]_vars

\* 66 frames on the target 1, started from below it, and not yet on it.
C7_Witness ==
  /\ hold >= 66
  /\ controlRef.compression = Unit
  /\ InUnit(currentStats.compression)
  /\ SmoothingError # 0 /\ Abs(SmoothingError) <= 1000

\* C8: a detection with handSize = 0 is passed on as the no-hand sample, and
\* no NaN compression is in the control ref or in the smoothed state.
C8_Guarded ==
  /\ sample.handSize = 0 => sample.data = NoHandData
  /\ ~IsNaN(controlRef.compression)
  /\ ~IsNaN(currentStats.compression)

\* C9 as claimed: the only changes of appState are IDLE -> CAPTURING ->
\* PROCESSING -> INTERACTIVE -> IDLE.
ClaimedTransitions ==
  { <<"IDLE", "CAPTURING">>, <<"CAPTURING", "PROCESSING">>,
    <<"PROCESSING", "INTERACTIVE">>, <<"INTERACTIVE", "IDLE">> }
C9_Original ==
  [][appState' # appState => <<appState, appState'>> \in ClaimedTransitions]_vars

\* C9 as amended: the only changes of appState are IDLE -> PROCESSING ->
\* INTERACTIVE -> IDLE, and CAPTURING is never entered.
CodeTransitions ==
  { <<"IDLE", "PROCESSING">>, <<"PROCESSING", "INTERACTIVE">>,
    <<"INTERACTIVE", "IDLE">> }
C9_Transitions ==
  /\ [](appState \in {"IDLE", "PROCESSING", "INTERACTIVE"})
  /\ [][appState' # appState => <<appState, appState'>> \in CodeTransitions]_vars

\* Back in IDLE after a reset of an interactive session.
C9_Witness == appState = "IDLE" /\ session >= 1 /\ hc[session].cleanedUp

Remounted == session >= 2 /\ strips > 0 /\ frames = 0

\* C11 as claimed: after a reset and a new capture the first frame starts
\* from a smoothed state of (0, 0, 0), a control sample of (0, 0, 0) and a
\* noise table generated for the new wall.
C11_Original ==
  Remounted =>
    /\ currentStats = ZeroControl
    /\ controlRef = ZeroControl
    /\ noiseOffsets \in NoiseTables(strips)

\* C11 as amended: a reset drops the wall, its smoothed state, its noise
\* table and the control sample; the mount that follows a new capture starts
\* from a smoothed state of (0, 0, 0), a control sample of (0, 0, 0) and a
\* noise table generated by that mount; and at the first frame of the new
\* wall the smoothed state is still (0, 0, 0), the noise table is still the
\* mount's, and the control sample is (0, 0, 0) or the latest update of the
\* new instance's own hand controller, never a value of before the reset.
C11_Discarded ==
  /\ [](Remounted =>
          /\ currentStats = ZeroControl
          /\ noiseOffsets \in NoiseTables(strips)
          /\ \/ controlRef = ZeroControl
             \/ /\ detector[session].calls >= 1
                /\ controlRef = HandleHandUpdate(sample.data))
  /\ [][ /\ (appState = "INTERACTIVE" /\ appState' = "IDLE") =>
              /\ strips' = 0 /\ noiseOffsets' = <<>>
              /\ currentStats' = ZeroControl /\ controlRef' = ZeroControl
         /\ (session' # session) =>
              /\ strips = 0 /\ noiseOffsets = <<>>
              /\ currentStats' = ZeroControl /\ controlRef' = ZeroControl
              /\ noiseOffsets' \in NoiseTables(strips')
              /\ detector'[session'].calls = 0
         /\ (Remounted /\ frames' = 1) =>
              currentStats' = Smooth(ZeroControl, controlRef) ]_vars

\* A second wall before its first frame and before any update of its own
\* hand controller, while the latest update of the first instance, the
\* control sample at the reset, was a tracked hand with compression above 0.
C11_Witness ==
  /\ Remounted
  /\ detector[session].calls = 0
  /\ sample.data.isTracking /\ sample.data.compression > 0

\* The accumulated sum of segWidth * cos(angle_i) over the first k strips of
\* the latest frame.
RECURSIVE SpanSum(_)
SpanSum(k) ==
  IF k = 0 THEN 0
  ELSE FAdd(SpanSum(k - 1), FMul(SegWidth(strips), MathCos(frame.angles[k])))

\* C12: after every frame whose effective compression lies in [0, 1] the
\* wall is centred on X: in both vertex rows the x of boundary 0 is the
\* negative of the x of boundary strips, and x_strips - x_0 is the accumulated
\* sum of segWidth * cos(angle_i) (vertex x is held in half units).
C12_Centred ==
  (frame.ran /\ InUnit(frame.effectiveCompression)) =>
    \A row \in {0, strips + 1} :
      LET first == positionAttribute[row][1]
          last == positionAttribute[row + strips][1]
      IN  /\ first + last = 0
          /\ last - first = Twice(SpanSum(strips))
          /\ last > 0

\* A frame of a wall of several strips, folded by a compression in (0, 1]:
\* its span is shorter than width and it is centred away from 0.
C12_Witness ==
  /\ frame.ran
  /\ strips >= 2
  /\ InUnit(frame.effectiveCompression) /\ frame.effectiveCompression > 0
  /\ SpanSum(strips) < Width * Unit - Unit
  /\ positionAttribute[0][1] < 0
  /\ positionAttribute[0][1] + positionAttribute[strips][1] = 0

\* C13: under every interleaving of hand updates and frames, a frame changes
\* only the smoothed state, the vertex positions and the rotation, and leaves
\* the control sample and the noise table unchanged; a hand update changes
\* only the control sample and leaves the smoothed state, the vertices, the
\* rotation and the noise table unchanged; and while one wall is mounted the
\* control sample changes only in a hand update, the smoothed state, the
\* vertices and the rotation only in a frame, and the noise table never.
C13_SingleWriter ==
  [][ /\ (frames' = frames + 1) =>
           /\ controlRef' = controlRef
           /\ noiseOffsets' = noiseOffsets
           /\ sample' = sample /\ detector' = detector
      /\ (detector' # detector) =>
           /\ currentStats' = currentStats
           /\ positionAttribute' = positionAttribute
           /\ rotation' = rotation
           /\ noiseOffsets' = noiseOffsets
           /\ frames' = frames
      /\ (strips' = strips /\ session' = session) =>
           /\ noiseOffsets' = noiseOffsets
           /\ (controlRef' # controlRef) => (detector' # detector)
           /\ (<<currentStats, positionAttribute, rotation>>'
                 # <<currentStats, positionAttribute, rotation>>)
                => (frames' = frames + 1) ]_vars

\* Hand updates and frames have interleaved: two frames have run, the hand
\* controller has delivered a tracked hand, and the smoothed state lags
\* behind the control sample it follows.
C13_Witness ==
  /\ frames >= 2
  /\ detector[session].calls >= 1
  /\ sample.data.isTracking
  /\ controlRef = HandleHandUpdate(sample.data)
  /\ Finite(controlRef.compression) /\ controlRef.compression > 0
  /\ currentStats.compression > 0
  /\ currentStats # controlRef
=============================================================================
